---- MODULE Spec2Model ----
(***************************************************************************)
(* Model of the CTC offline cache controller (src/sw.js): the install,     *)
(* activate and fetch listeners of successive deployed versions of the     *)
(* worker script, running against one origin-wide cache storage.           *)
(*                                                                         *)
(* Every await of the listeners is a separate step, so that the steps of   *)
(* different workers and of different intercepted requests interleave.     *)
(*                                                                         *)
(* The platform around the script is modelled as follows.                  *)
(*  - One worker at a time is between the start of its install and the end *)
(*    of its activate (the registration's job queue).                      *)
(*  - Activating a worker makes the previous active worker redundant and   *)
(*    re-points the pages it controlled.  Handlers already running in the  *)
(*    redundant worker either are terminated or run on to completion:      *)
(*    both outcomes are possible, the choice is nondeterministic.          *)
(*  - Fetch events are dispatched only to an activated worker.             *)
(*  - caches.delete removes the name; a Cache object somebody already      *)
(*    holds stays readable with the entries it had.                        *)
(***************************************************************************)
EXTENDS Integers, FiniteSets, Sequences, TLC

\* ------------------------------------------------------------------ bounds
MaxWorkers == 2
MaxReqs == 1

\* --------------------------------------------------------------- constants
\* A variant with a mistyped fallback path.
OFFLINE_URL_Mistyped == "/offline"

OFFLINE_URL == "/offline.html"
CORE_ASSETS == {"/", "/offline.html", "/about/", "/events/", "/team/"}

\* The cache names successive deployments of the script carry in CACHE_NAME.
VersionNames == {"ctc-static-v1", "ctc-static-v2"}
\* Every name cache storage may hold: the versions' and one foreign name.
CacheNames == VersionNames \cup {"legacy"}

Workers == 1..MaxWorkers
Pages == {"p1"}
Methods == {"GET", "POST"}
\* The URLs pages request: a core asset with and without a query string and
\* a path outside the core asset set.
RequestURLs ==
    { [path |-> "/about/", search |-> ""],
      [path |-> "/about/", search |-> "?x=1"],
      [path |-> "/nonexistent-page", search |-> ""] }
\* What one network attempt yields: 0 is a transport-level failure (fetch
\* rejects), any other number is the status of the response received.
Statuses == {200, 404, 500}
NetOutcomes == {0} \cup Statuses
\* The outcomes of the install's fetches of the core assets: all succeed, or
\* one of them fails, by a transport error or with an error status.
InstallOutcomes ==
    { [p \in CORE_ASSETS |-> IF p = q THEN s ELSE 200] :
          q \in CORE_ASSETS, s \in NetOutcomes }

VARIABLES storage, wk, ctl, reqs

vars == <<storage, wk, ctl, reqs>>

\* ---------------------------------------------------------------- responses
NoResp == [kind |-> "none", path |-> "", search |-> "", status |-> 0, body |-> 0]
Undefined == [kind |-> "undefined", path |-> "", search |-> "", status |-> 0, body |-> 0]
Passthrough == [kind |-> "passthrough", path |-> "", search |-> "", status |-> 0, body |-> 0]
TransportError == [kind |-> "error", path |-> "", search |-> "", status |-> 0, body |-> 0]

\* The revision of the origin's content: it changes with every deployment.
OriginRev == Cardinality({w \in Workers : wk[w].st # "none"})

\* The response the network gives for url with status s.
NetResponse(url, s) ==
    [kind |-> "resp", path |-> url.path, search |-> url.search,
     status |-> s, body |-> OriginRev]

IsOk(s) == s \in 200..299

\* ------------------------------------------------------------ cache storage
AbsentCache == [present |-> FALSE, entries |-> {}]
EmptyCache == [present |-> TRUE, entries |-> {}]

\* caches.keys()
CacheKeys == {n \in CacheNames : storage[n].present}

\* caches.open(name): the storage after the call (the cache is created when
\* it is absent).
CachesOpen(st, name) ==
    IF st[name].present THEN st ELSE [st EXCEPT ![name] = EmptyCache]

\* caches.delete(name)
CachesDelete(st, name) == [st EXCEPT ![name] = AbsentCache]

\* The options the fetch listener passes to cache.match; a variant without
\* ignoreSearch.
MatchIgnoreSearchOff == FALSE

MatchIgnoreSearch == TRUE

\* Whether a stored key matches a request URL (Cache API request matching).
KeyMatches(e, url, ignoreSearch) ==
    /\ e.path = url.path
    /\ (ignoreSearch \/ e.search = url.search)

\* cache.match(url, {ignoreSearch}): the stored response, or undefined.
CacheMatch(entries, url, ignoreSearch) ==
    LET hits == {e \in entries : KeyMatches(e, url, ignoreSearch)}
    IN IF hits = {} THEN Undefined ELSE (CHOOSE e \in hits : TRUE).resp

\* cache.put(key, resp): an entry with the same URL is replaced.
CachePut(entries, url, resp) ==
    {e \in entries : ~KeyMatches(e, url, FALSE)}
        \cup {[path |-> url.path, search |-> url.search, resp |-> resp]}

AssetURL(p) == [path |-> p, search |-> ""]

\* The entries cache.addAll(CORE_ASSETS) stores when every fetch succeeded.
CoreSnapshot(rev) ==
    { [path |-> p, search |-> "",
       resp |-> [kind |-> "resp", path |-> p, search |-> "",
                 status |-> 200, body |-> rev]] : p \in CORE_ASSETS }

\* A variant that stops storing before the last asset of the list.
AddAllEntriesPartial(entries, f, rev) ==
    {e \in entries : \A p \in CORE_ASSETS : ~KeyMatches(e, AssetURL(p), FALSE)}
        \cup { [path |-> p, search |-> "",
                resp |-> [kind |-> "resp", path |-> p, search |-> "",
                          status |-> f[p], body |-> rev]] :
                    p \in CORE_ASSETS \ {"/team/"} }

\* A variant that adds the new responses without replacing the stored ones.
AddAllEntriesAppend(entries, f, rev) ==
    entries
        \cup { [path |-> p, search |-> "",
                resp |-> [kind |-> "resp", path |-> p, search |-> "",
                          status |-> f[p], body |-> rev]] : p \in CORE_ASSETS }

\* cache.addAll(CORE_ASSETS) after every fetch succeeded: one batch of puts,
\* f[p] being the status received for asset p.
AddAllEntries(entries, f, rev) ==
    {e \in entries : \A p \in CORE_ASSETS : ~KeyMatches(e, AssetURL(p), FALSE)}
        \cup { [path |-> p, search |-> "",
                resp |-> [kind |-> "resp", path |-> p, search |-> "",
                          status |-> f[p], body |-> rev]] : p \in CORE_ASSETS }

\* A variant that stores whatever response arrived, success status or not.
AllFetchedAnyStatus(f) == \A p \in CORE_ASSETS : f[p] # 0

\* addAll rejects, and stores nothing, unless every asset was fetched with a
\* success status.
AllFetched(f) == \A p \in CORE_ASSETS : IsOk(f[p])

\* ------------------------------------------------------------------ workers
\* st: none (not deployed), inst_open, inst_addAll, inst_skip (the install
\* listener's awaits), installed, act_keys, act_delete (the activate
\* listener's awaits), activated, install_failed, redundant.
\* bad and pre are history: whether a core asset fetch of the install failed,
\* and whether the worker's generation existed when its install opened it.
NoWorker ==
    [st |-> "none", name |-> "", skip |-> FALSE, claim |-> FALSE,
     pending |-> {}, bad |-> FALSE, pre |-> FALSE]

CACHE_NAME(w) == wk[w].name

\* A variant of the install that is never told to skip waiting.
SkipWaitingNotCalled == FALSE

\* self.skipWaiting() sets the worker's skip-waiting flag.
SkipWaitingCalled == TRUE

InLifecycle(w) ==
    wk[w].st \in {"inst_open", "inst_addAll", "inst_skip", "installed",
                  "act_keys", "act_delete"}

\* The registration's active worker, 0 when there is none.
ActiveWorker ==
    IF \E w \in Workers : wk[w].st \in {"act_keys", "act_delete", "activated"}
    THEN CHOOSE w \in Workers : wk[w].st \in {"act_keys", "act_delete", "activated"}
    ELSE 0

\* ----------------------------------------------------------------- requests
\* One intercepted request: the worker whose listener runs, the request, the
\* listener's position, what the network gave (history), the Cache object
\* opened (its name, and once the name was deleted under it the entries it
\* keeps), the value handed to respondWith and the number of cache calls.
ReqURL(r) == [path |-> r.path, search |-> r.search]

NewRequest(w, method, url) ==
    [w |-> w, method |-> method, path |-> url.path, search |-> url.search,
     pc |-> "fetch", net |-> NoResp, cname |-> "", orph |-> FALSE, snap |-> {},
     result |-> NoResp, ops |-> 0]

\* The entries of the Cache object request r holds.
HandleEntries(r) == IF r.orph THEN r.snap ELSE storage[r.cname].entries

\* caches.delete(name) seen from the handlers holding that Cache object.
Orphaned(rs, st, name) ==
    { IF r.cname = name /\ ~r.orph /\ r.pc \in {"match", "offline"}
      THEN [r EXCEPT !.orph = TRUE, !.snap = st[name].entries]
      ELSE r : r \in rs }

\* =================================================================== header
(***************************************************************************)
(* The page scripts: src/header.js (mobile menu, is-up / is-down) and the  *)
(* header code of src/sw.js (nav-up / nav-down).  Both run in one page:    *)
(* they share the window's scroll offset and the root element's            *)
(* ctc-mnav-open class, which header.js sets and the other script reads.   *)
(* An event's listeners run to completion; an animation-frame callback is  *)
(* a later step.                                                           *)
(***************************************************************************)
\* The largest scroll offset of the page (scrollHeight - innerHeight).
MaxScrollTop == 30

\* header.offsetHeight, read once by the header code of sw.js.
headerHeight == 12
\* const delta = 5 (sw.js); y <= 8 and delta < 10 (header.js); >= 900 (resize).
delta == 5
NearTop == 8
JitterLimit == 10
DesktopWidth == 900

\* The scroll offsets, window widths and keys tried.
ScrollOffsets == {0, 4, 8, 9, 13, 19, MaxScrollTop}
Widths == {600, 900, 1200}
Keys == {"Escape", "a"}

VARIABLES menu, scrollY, lastY, headerClass, ticking, rafPending,
          lastScrollTop, navClass, navTicking, navRafPending

hvars == <<menu, scrollY, lastY, headerClass, ticking, rafPending,
           lastScrollTop, navClass, navTicking, navRafPending>>

Abs(x) == IF x < 0 THEN -x ELSE x

\* A variant that sets aria-hidden the wrong way round.
SetOpenHiddenInverted(m, open) ==
    [open |-> open,
     expanded |-> IF open THEN "true" ELSE "false",
     label |-> IF open THEN "Close menu" ELSE "Open menu",
     hidden |-> IF open THEN "true" ELSE "false",
     called |-> TRUE]

\* setOpen(open): the root's class and the three attributes.  called is
\* history: whether setOpen ran at all.
SetOpen(m, open) ==
    [open |-> open,
     expanded |-> IF open THEN "true" ELSE "false",
     label |-> IF open THEN "Close menu" ELSE "Open menu",
     hidden |-> IF open THEN "false" ELSE "true",
     called |-> TRUE]

\* One click, through the listeners it reaches in turn: the toggle's, the
\* menu's and the document's.
AfterClick(m, onToggle, inMenu, inLink, inHeader) ==
    LET m1 == IF onToggle THEN SetOpen(m, ~m.open) ELSE m
        m2 == IF inMenu /\ inLink THEN SetOpen(m1, FALSE) ELSE m1
    IN IF m2.open /\ ~(inHeader \/ inMenu) THEN SetOpen(m2, FALSE) ELSE m2

\* A variant of onScroll whose scroll-down branch does not remove is-up.
OnScrollKeepsUp(open, y, last, cls) ==
    IF open THEN [cls |-> cls, last |-> last]
    ELSE IF y <= NearTop
         THEN [cls |-> (cls \ {"is-down"}) \cup {"is-up"}, last |-> y]
    ELSE IF Abs(y - last) < JitterLimit THEN [cls |-> cls, last |-> y]
    ELSE IF y > last
         THEN [cls |-> cls \cup {"is-down"}, last |-> y]
    ELSE [cls |-> (cls \ {"is-down"}) \cup {"is-up"}, last |-> y]

\* A variant of onScroll without the open-menu guard.
OnScrollUnguarded(open, y, last, cls) ==
    IF y <= NearTop
    THEN [cls |-> (cls \ {"is-down"}) \cup {"is-up"}, last |-> y]
    ELSE IF Abs(y - last) < JitterLimit THEN [cls |-> cls, last |-> y]
    ELSE IF y > last
         THEN [cls |-> (cls \ {"is-up"}) \cup {"is-down"}, last |-> y]
    ELSE [cls |-> (cls \ {"is-down"}) \cup {"is-up"}, last |-> y]

\* onScroll (header.js) at offset y: the header's classes and lastY after it.
OnScroll(open, y, last, cls) ==
    IF open THEN [cls |-> cls, last |-> last]
    ELSE IF y <= NearTop
         THEN [cls |-> (cls \ {"is-down"}) \cup {"is-up"}, last |-> y]
    ELSE IF Abs(y - last) < JitterLimit THEN [cls |-> cls, last |-> y]
    ELSE IF y > last
         THEN [cls |-> (cls \ {"is-up"}) \cup {"is-down"}, last |-> y]
    ELSE [cls |-> (cls \ {"is-down"}) \cup {"is-up"}, last |-> y]

\* A variant of updateHeader whose jitter path returns without resetting
\* ticking.
UpdateHeaderJitterStuck(open, scrollTop, last, cls) ==
    IF open THEN [cls |-> cls, last |-> last, ticking |-> FALSE]
    ELSE IF Abs(last - scrollTop) <= delta
         THEN [cls |-> cls, last |-> last, ticking |-> TRUE]
    ELSE IF scrollTop > last /\ scrollTop > headerHeight
         THEN [cls |-> (cls \ {"nav-up"}) \cup {"nav-down"},
               last |-> scrollTop, ticking |-> FALSE]
    ELSE IF scrollTop < MaxScrollTop
         THEN [cls |-> (cls \ {"nav-down"}) \cup {"nav-up"},
               last |-> scrollTop, ticking |-> FALSE]
    ELSE [cls |-> cls, last |-> scrollTop, ticking |-> FALSE]

\* updateHeader (sw.js) at offset scrollTop: the header's classes,
\* lastScrollTop and ticking after it.  scrollTop + innerHeight < scrollHeight
\* is scrollTop < MaxScrollTop.
UpdateHeader(open, scrollTop, last, cls) ==
    IF open THEN [cls |-> cls, last |-> last, ticking |-> FALSE]
    ELSE IF Abs(last - scrollTop) <= delta
         THEN [cls |-> cls, last |-> last, ticking |-> FALSE]
    ELSE IF scrollTop > last /\ scrollTop > headerHeight
         THEN [cls |-> (cls \ {"nav-up"}) \cup {"nav-down"},
               last |-> scrollTop, ticking |-> FALSE]
    ELSE IF scrollTop < MaxScrollTop
         THEN [cls |-> (cls \ {"nav-down"}) \cup {"nav-up"},
               last |-> scrollTop, ticking |-> FALSE]
    ELSE [cls |-> cls, last |-> scrollTop, ticking |-> FALSE]

\* The page scripts loaded, at the top of the page, nothing scheduled.
HeaderIdle ==
    /\ menu = [open |-> FALSE, expanded |-> "false", label |-> "Open menu",
               hidden |-> "true", called |-> FALSE]
    /\ scrollY = 0
    /\ lastY = 0
    /\ headerClass = {"is-up"}
    /\ ticking = FALSE
    /\ rafPending = 0
    /\ lastScrollTop = 0
    /\ navClass = {"nav-up"}
    /\ navTicking = FALSE
    /\ navRafPending = 0

\* --------------------------------------------------------------------- Init
\* Cache storage may hold generations left by earlier deployments, under any
\* of the names; no worker of this script is deployed yet and the open pages
\* are uncontrolled.
Init ==
    /\ storage \in [CacheNames -> {AbsentCache, [present |-> TRUE, entries |-> CoreSnapshot(0)]}]
    /\ wk = [w \in Workers |-> NoWorker]
    /\ ctl = [p \in Pages |-> 0]
    /\ reqs = {}
    /\ HeaderIdle

\* ------------------------------------------------------------ install phase
\* A variant that installs into the generation the active worker serves from.
InstallTargetActive(w) ==
    IF \E a \in Workers : wk[a].st = "activated"
    THEN wk[CHOOSE a \in Workers : wk[a].st = "activated"].name
    ELSE wk[w].name

\* The generation the install listener opens and fills: CACHE_NAME.
InstallTarget(w) == CACHE_NAME(w)

\* A new version of the script is deployed and its install event fires.
Deploy(w, n) ==
    /\ wk[w].st = "none"
    /\ \A v \in Workers : v < w => wk[v].st # "none"
    /\ \A v \in Workers : ~InLifecycle(v)
    /\ wk' = [wk EXCEPT ![w] = [NoWorker EXCEPT !.st = "inst_open", !.name = n]]
    /\ UNCHANGED <<storage, ctl, reqs>>

\* const cache = await caches.open(CACHE_NAME);
InstallOpen(w) ==
    /\ wk[w].st = "inst_open"
    /\ storage' = CachesOpen(storage, InstallTarget(w))
    /\ wk' = [wk EXCEPT ![w].st = "inst_addAll",
                        ![w].pre = storage[CACHE_NAME(w)].present]
    /\ UNCHANGED <<ctl, reqs>>

\* await cache.addAll(CORE_ASSETS); a rejection fails the install.
InstallAddAll(w, f) ==
    /\ wk[w].st = "inst_addAll"
    /\ LET bad == \E p \in CORE_ASSETS : f[p] \notin 200..299
       IN IF AllFetched(f)
          THEN /\ storage' = [storage EXCEPT ![InstallTarget(w)].entries =
                                  AddAllEntries(@, f, OriginRev)]
               /\ wk' = [wk EXCEPT ![w].st = "inst_skip", ![w].bad = bad]
          ELSE /\ storage' = storage
               /\ wk' = [wk EXCEPT ![w].st = "install_failed", ![w].bad = bad]
    /\ UNCHANGED <<ctl, reqs>>

\* self.skipWaiting(); the listener's promise resolves, the worker is installed.
InstallSkipWaiting(w) ==
    /\ wk[w].st = "inst_skip"
    /\ wk' = [wk EXCEPT ![w].st = "installed", ![w].skip = SkipWaitingCalled]
    /\ UNCHANGED <<storage, ctl, reqs>>

\* ----------------------------------------------------------- activate phase
\* The platform activates an installed worker that asked to skip waiting: the
\* previous active worker becomes redundant, the pages it controlled are
\* handed over, and the activate event fires.
ActivateStart(w) ==
    /\ wk[w].st = "installed"
    /\ wk[w].skip
    /\ LET old == ActiveWorker
       IN /\ wk' = [v \in Workers |->
                     IF v = w THEN [wk[v] EXCEPT !.st = "act_keys"]
                     ELSE IF v = old THEN [wk[v] EXCEPT !.st = "redundant", !.claim = FALSE]
                     ELSE wk[v]]
          /\ ctl' = [p \in Pages |-> IF old # 0 /\ ctl[p] = old THEN w ELSE ctl[p]]
    /\ UNCHANGED <<storage, reqs>>

\* const keys = await caches.keys(); keys.filter(k => k !== CACHE_NAME)
ActivateKeys(w) ==
    /\ wk[w].st = "act_keys"
    /\ wk' = [wk EXCEPT ![w].st = "act_delete",
                        ![w].pending = CacheKeys \ {CACHE_NAME(w)}]
    /\ UNCHANGED <<storage, ctl, reqs>>

\* One caches.delete(k) of the Promise.all.
ActivateDelete(w, k) ==
    /\ wk[w].st = "act_delete"
    /\ k \in wk[w].pending
    /\ storage' = CachesDelete(storage, k)
    /\ reqs' = Orphaned(reqs, storage, k)
    /\ wk' = [wk EXCEPT ![w].pending = @ \ {k}]
    /\ UNCHANGED ctl

\* Promise.all resolved; self.clients.claim() is called and not awaited; the
\* listener's promise resolves, the worker is activated.
ActivateDone(w) ==
    /\ wk[w].st = "act_delete"
    /\ wk[w].pending = {}
    /\ wk' = [wk EXCEPT ![w].st = "activated", ![w].claim = TRUE]
    /\ UNCHANGED <<storage, ctl, reqs>>

\* The claim takes effect: every page in scope is controlled by the worker.
ClaimEffect(w) ==
    /\ wk[w].claim
    /\ wk[w].st = "activated"
    /\ ctl' = [p \in Pages |-> w]
    /\ wk' = [wk EXCEPT ![w].claim = FALSE]
    /\ UNCHANGED <<storage, reqs>>

\* A page is loaded anew: it is controlled by the active worker, if any.
Reload(p) ==
    /\ ctl[p] # ActiveWorker
    /\ ctl' = [ctl EXCEPT ![p] = ActiveWorker]
    /\ UNCHANGED <<storage, wk, reqs>>

\* -------------------------------------------------------------- fetch phase
\* A variant without the method check.
InterceptedAnyMethod(method) == TRUE

\* if (req.method !== "GET") return;
Intercepted(method) == method = "GET"

\* A variant that falls back to the cache when the response is an HTTP error.
TryResultOkOnly(st, r, fresh) ==
    LET cached == CacheMatch(st[wk[r.w].name].entries, ReqURL(r), TRUE)
    IN IF ~IsOk(fresh.status) /\ cached.kind = "resp" THEN cached ELSE fresh

\* try { const fresh = await fetch(req); return fresh; }
TryResult(st, r, fresh) == fresh

\* A variant that stores the fresh response (stale-while-revalidate).
TryStorageRevalidate(st, r, fresh) ==
    IF st[wk[r.w].name].present
    THEN [st EXCEPT ![wk[r.w].name].entries = CachePut(@, ReqURL(r), fresh)]
    ELSE st

\* The cache storage after the try branch returned: nothing is written.
TryStorage(st, r, fresh) == st

\* A page controlled by an activated worker issues a request; the worker's
\* fetch listener runs.  A request that is not intercepted gets no
\* respondWith and goes to the network by the platform's default.
FetchStart(p, method, url) ==
    /\ ctl[p] # 0
    /\ wk[ctl[p]].st = "activated"
    /\ LET r == NewRequest(ctl[p], method, url)
           n == IF Intercepted(method) THEN r
                ELSE [r EXCEPT !.pc = "done", !.result = Passthrough]
       IN /\ n \notin reqs
          /\ Cardinality(reqs) < MaxReqs
          /\ reqs' = reqs \cup {n}
    /\ UNCHANGED <<storage, wk, ctl>>

\* await fetch(req) settles: s = 0 rejects (the catch branch runs), any other
\* s is the status of the response, which is returned.
FetchNet(r, s) ==
    /\ r \in reqs
    /\ r.pc = "fetch"
    /\ IF s = 0
       THEN /\ reqs' = (reqs \ {r}) \cup {[r EXCEPT !.pc = "open", !.net = TransportError]}
            /\ storage' = storage
       ELSE LET fresh == NetResponse(ReqURL(r), s)
            IN /\ reqs' = (reqs \ {r}) \cup
                       {[r EXCEPT !.pc = "done", !.net = fresh,
                                  !.result = TryResult(storage, r, fresh)]}
               /\ storage' = TryStorage(storage, r, fresh)
    /\ UNCHANGED <<wk, ctl>>

\* const cache = await caches.open(CACHE_NAME);
FetchOpen(r) ==
    /\ r \in reqs
    /\ r.pc = "open"
    /\ storage' = CachesOpen(storage, CACHE_NAME(r.w))
    /\ reqs' = (reqs \ {r}) \cup
           {[r EXCEPT !.pc = "match", !.cname = CACHE_NAME(r.w), !.ops = @ + 1]}
    /\ UNCHANGED <<wk, ctl>>

\* const cached = await cache.match(req, { ignoreSearch: true });
\* return cached || ...
FetchMatch(r) ==
    /\ r \in reqs
    /\ r.pc = "match"
    /\ LET cached == CacheMatch(HandleEntries(r), ReqURL(r), MatchIgnoreSearch)
       IN reqs' = (reqs \ {r}) \cup
            { IF cached.kind = "resp"
              THEN [r EXCEPT !.pc = "done", !.result = cached, !.ops = @ + 1,
                             !.snap = {}, !.orph = FALSE]
              ELSE [r EXCEPT !.pc = "offline", !.ops = @ + 1] }
    /\ UNCHANGED <<storage, wk, ctl>>

\* ... || cache.match(OFFLINE_URL, { ignoreSearch: true })
FetchOffline(r) ==
    /\ r \in reqs
    /\ r.pc = "offline"
    /\ reqs' = (reqs \ {r}) \cup
           {[r EXCEPT !.pc = "done", !.ops = @ + 1, !.snap = {}, !.orph = FALSE,
                      !.result = CacheMatch(HandleEntries(r), AssetURL(OFFLINE_URL), MatchIgnoreSearch)]}
    /\ UNCHANGED <<storage, wk, ctl>>

\* The platform terminates a redundant worker: a listener still running in it
\* is dropped.
Terminate(r) ==
    /\ r \in reqs
    /\ r.pc # "done"
    /\ wk[r.w].st = "redundant"
    /\ reqs' = reqs \ {r}
    /\ UNCHANGED <<storage, wk, ctl>>

\* The page consumed the outcome of a finished request.
Settle(r) ==
    /\ r \in reqs
    /\ r.pc = "done"
    /\ reqs' = reqs \ {r}
    /\ UNCHANGED <<storage, wk, ctl>>

FetchStep(r) ==
    \/ \E s \in NetOutcomes : FetchNet(r, s)
    \/ FetchOpen(r)
    \/ FetchMatch(r)
    \/ FetchOffline(r)

\* --------------------------------------------------------------------- Next
Next ==
    \/ UNCHANGED hvars /\ \E w \in Workers, n \in VersionNames : Deploy(w, n)
    \/ UNCHANGED hvars /\ \E w \in Workers : InstallOpen(w)
    \/ UNCHANGED hvars /\ \E w \in Workers, f \in InstallOutcomes : InstallAddAll(w, f)
    \/ UNCHANGED hvars /\ \E w \in Workers : InstallSkipWaiting(w)
    \/ UNCHANGED hvars /\ \E w \in Workers : ActivateStart(w)
    \/ UNCHANGED hvars /\ \E w \in Workers : ActivateKeys(w)
    \/ UNCHANGED hvars /\ \E w \in Workers, k \in CacheNames : ActivateDelete(w, k)
    \/ UNCHANGED hvars /\ \E w \in Workers : ActivateDone(w)
    \/ UNCHANGED hvars /\ \E w \in Workers : ClaimEffect(w)
    \/ UNCHANGED hvars /\ \E p \in Pages : Reload(p)
    \/ UNCHANGED hvars /\ \E p \in Pages, m \in Methods, u \in RequestURLs : FetchStart(p, m, u)
    \/ UNCHANGED hvars /\ \E r \in reqs : FetchStep(r)
    \/ UNCHANGED hvars /\ \E r \in reqs : Terminate(r)
    \/ UNCHANGED hvars /\ \E r \in reqs : Settle(r)

Spec == Init /\ [][Next]_vars

\* The event loop runs a listener's continuation once it is ready, and the
\* platform activates a waiting worker that may be activated.
FairSpec ==
    /\ Spec
    /\ \A w \in Workers : WF_vars(InstallSkipWaiting(w) /\ UNCHANGED hvars)
    /\ \A w \in Workers : WF_vars(ActivateStart(w) /\ UNCHANGED hvars)

\* ----------------------------------------------------------- header actions
\* No worker deployed, empty cache storage: the page scripts alone.
SwIdle ==
    /\ storage = [n \in CacheNames |-> AbsentCache]
    /\ wk = [w \in Workers |-> NoWorker]
    /\ ctl = [p \in Pages |-> 0]
    /\ reqs = {}

\* The page scripts have run: the markup's attributes are whatever the page
\* ships, the page may be scrolled already (lastY = window.scrollY || 0,
\* lastScrollTop = 0), both scripts added their initial class.
InitHeader ==
    /\ SwIdle
    /\ menu \in [open : {FALSE}, expanded : {"true", "false"},
                 label : {"Open menu", "Close menu"},
                 hidden : {"true", "false"}, called : {FALSE}]
    /\ scrollY \in ScrollOffsets
    /\ lastY = scrollY
    /\ headerClass = {"is-up"}
    /\ ticking = FALSE
    /\ rafPending = 0
    /\ lastScrollTop = 0
    /\ navClass = {"nav-up"}
    /\ navTicking = FALSE
    /\ navRafPending = 0

\* A click somewhere in the page.
Click(onToggle, inMenu, inLink, inHeader) ==
    /\ menu' = AfterClick(menu, onToggle, inMenu, inLink, inHeader)
    /\ UNCHANGED <<scrollY, lastY, headerClass, ticking, rafPending,
                   lastScrollTop, navClass, navTicking, navRafPending>>

\* if (e.key === "Escape") setOpen(false);
KeyDown(k) ==
    /\ menu' = IF k = "Escape" THEN SetOpen(menu, FALSE) ELSE menu
    /\ UNCHANGED <<scrollY, lastY, headerClass, ticking, rafPending,
                   lastScrollTop, navClass, navTicking, navRafPending>>

\* if (window.innerWidth >= 900) setOpen(false);
Resize(width) ==
    /\ menu' = IF width >= DesktopWidth THEN SetOpen(menu, FALSE) ELSE menu
    /\ UNCHANGED <<scrollY, lastY, headerClass, ticking, rafPending,
                   lastScrollTop, navClass, navTicking, navRafPending>>

\* The window scrolls to y; the scroll listeners of both scripts run:
\* if (!ticking) { requestAnimationFrame(...); ticking = true; }
ScrollEvent(y) ==
    /\ y # scrollY
    /\ scrollY' = y
    /\ ticking' = TRUE
    /\ rafPending' = IF ticking THEN rafPending ELSE rafPending + 1
    /\ navTicking' = TRUE
    /\ navRafPending' = IF navTicking THEN navRafPending ELSE navRafPending + 1
    /\ UNCHANGED <<menu, lastY, headerClass, lastScrollTop, navClass>>

\* header.js's animation-frame callback: onScroll(); ticking = false;
Frame ==
    /\ rafPending > 0
    /\ LET after == OnScroll(menu.open, scrollY, lastY, headerClass)
       IN /\ headerClass' = after.cls
          /\ lastY' = after.last
    /\ ticking' = FALSE
    /\ rafPending' = rafPending - 1
    /\ UNCHANGED <<menu, scrollY, lastScrollTop, navClass, navTicking, navRafPending>>

\* sw.js's animation-frame callback: updateHeader.
NavFrame ==
    /\ navRafPending > 0
    /\ LET after == UpdateHeader(menu.open, scrollY, lastScrollTop, navClass)
       IN /\ navClass' = after.cls
          /\ lastScrollTop' = after.last
          /\ navTicking' = after.ticking
    /\ navRafPending' = navRafPending - 1
    /\ UNCHANGED <<menu, scrollY, lastY, headerClass, ticking, rafPending>>

NextHeader ==
    \/ UNCHANGED vars /\ \E t, m, l, h \in BOOLEAN : Click(t, m, l, h)
    \/ UNCHANGED vars /\ \E k \in Keys : KeyDown(k)
    \/ UNCHANGED vars /\ \E width \in Widths : Resize(width)
    \/ UNCHANGED vars /\ \E y \in ScrollOffsets : ScrollEvent(y)
    \/ UNCHANGED vars /\ Frame
    \/ UNCHANGED vars /\ NavFrame

SpecHeader == InitHeader /\ [][NextHeader]_hvars

\* The browser runs a requested animation-frame callback.
FairSpecHeader ==
    /\ SpecHeader
    /\ WF_hvars(Frame /\ UNCHANGED vars)
    /\ WF_hvars(NavFrame /\ UNCHANGED vars)

\* =================================================================== claims
\* A worker whose activation is the latest thing that happened to the
\* registration: it is activated and no later version has been deployed.
Settled(w) ==
    /\ wk[w].st = "activated"
    /\ \A v \in Workers : v > w => wk[v].st = "none"

\* The stored response under the key path (no query string) in a generation.
StoredUnder(entries, path) ==
    {e.resp : e \in {x \in entries : x.path = path /\ x.search = ""}}

\* C1: when the activate phase of a worker completes, cache storage holds
\* exactly one generation and it is named by that worker's CACHE_NAME.
C1_ActivationLeavesOnlyCurrent ==
    [][\A w \in Workers :
          (wk[w].st = "act_delete" /\ wk'[w].st = "activated")
              => {n \in CacheNames : storage'[n].present} = {wk[w].name}]_vars

\* C2: when an install in which a core asset fetch failed finishes, cache
\* storage holds no generation under the installing worker's name unless one
\* was there before the install opened it.
C2_FailedInstallLeavesNoGeneration ==
    [][\A w \in Workers :
          (wk[w].st = "inst_addAll" /\ wk'[w].st # "inst_addAll"
              /\ wk'[w].bad /\ ~wk[w].pre)
              => ~storage'[wk[w].name].present]_vars

\* C3: a worker whose install saw a core asset fetch fail (transport error
\* or non-success status) never calls skipWaiting, never moves on to the
\* activate phase, controls no page and handles no fetch event; the failing
\* step leaves the active worker, the pages' controller and cache storage as
\* they were.
C3_FailedInstallNeverActivates ==
    [][\A w \in Workers :
          wk'[w].bad =>
              /\ wk'[w].st = "install_failed"
              /\ ~wk'[w].skip
              /\ \A p \in Pages : ctl'[p] # w
              /\ \A r \in reqs' : r.w # w
              /\ wk[w].st = "inst_addAll" =>
                    /\ storage' = storage
                    /\ ctl' = ctl
                    /\ ActiveWorker' = ActiveWorker]_vars

\* A failed install while an earlier worker is active and controls the page.
C3_Witness ==
    \E w \in Workers :
        /\ wk[w].bad
        /\ ActiveWorker # 0
        /\ \E p \in Pages : ctl[p] = ActiveWorker
        /\ storage[wk[ActiveWorker].name].entries # {}

\* C4: every intercepted GET whose network attempt failed at transport level
\* ends with a response handed to respondWith (a cached snapshot or the
\* offline document), never with undefined.
C4_TransportFailureAlwaysAnswered ==
    \A r \in reqs :
        (r.pc = "done" /\ r.method = "GET" /\ r.net.kind = "error")
            => r.result.kind = "resp"

\* C5: once an activation has completed and before a newer version is
\* deployed, cache storage holds at most one generation.
C5_AtMostOneGenerationAfterActivation ==
    (\E w \in Workers : Settled(w)) => Cardinality(CacheKeys) <= 1

\* C6: a request whose method is not GET gets no respondWith, and its
\* listener makes no cache call and holds no Cache object.
C6_NonGetUntouched ==
    \A r \in reqs :
        r.method # "GET" =>
            /\ r.pc = "done"
            /\ r.result = Passthrough
            /\ r.ops = 0
            /\ r.cname = ""

C6_Witness ==
    \E r \in reqs :
        /\ r.method = "POST"
        /\ r.pc = "done"
        /\ storage[wk[r.w].name].entries # {}

\* C7: when the network returned a response to an intercepted GET, whatever
\* its status, the listener returns exactly that response.
C7_NetworkResponseVerbatim ==
    \A r \in reqs :
        (r.pc = "done" /\ r.method = "GET" /\ r.net.kind = "resp")
            => /\ r.result = r.net
               /\ r.result.path = r.path
               /\ r.result.search = r.search

\* A 404 or 500 returned although the cache holds a snapshot of the same URL.
C7_Witness ==
    \E r \in reqs :
        /\ r.pc = "done"
        /\ r.method = "GET"
        /\ r.net.kind = "resp"
        /\ r.net.status \in {404, 500}
        /\ StoredUnder(storage[wk[r.w].name].entries, r.path) # {}

\* C8: no step of a fetch listener changes the entries of any generation.
C8_FetchLeavesEntriesUnchanged ==
    [][((\E p \in Pages, m \in Methods, u \in RequestURLs : FetchStart(p, m, u))
            \/ (\E r \in reqs : FetchStep(r)))
          => \A n \in CacheNames : storage'[n].entries = storage[n].entries]_vars

\* A fresh 200 response was returned for a URL whose stored snapshot is an
\* older one, and the snapshot is still the older one.
C8_Witness ==
    \E r \in reqs :
        /\ r.pc = "done"
        /\ r.net.kind = "resp"
        /\ r.net.status = 200
        /\ \E c \in StoredUnder(storage[wk[r.w].name].entries, r.path) :
               c.body # r.result.body

\* C9: when the network attempt failed and the request URL without its query
\* string is a key of the current generation (the one the listener holds),
\* the cache lookup ends the listener with the snapshot stored under it.
C9_CachedSnapshotIgnoringQuery ==
    [][\A r \in reqs :
          (FetchMatch(r) /\ ~r.orph
              /\ StoredUnder(storage[wk[r.w].name].entries, r.path) # {})
              => \E d \in reqs' :
                    /\ d.pc = "done"
                    /\ d.path = r.path /\ d.search = r.search
                    /\ d.result \in StoredUnder(storage[wk[r.w].name].entries, r.path)]_vars

\* A request with a query string answered with the snapshot stored without.
C9_Witness ==
    \E r \in reqs :
        /\ r.pc = "done"
        /\ r.net.kind = "error"
        /\ r.search = "?x=1"
        /\ r.result.kind = "resp"
        /\ r.result.path = r.path
        /\ r.result.search = ""

\* C10: when the network attempt failed and the request URL without its query
\* string is no key of the current generation, the listener goes on to the
\* offline lookup, and that lookup ends it with the stored /offline.html
\* snapshot whenever the current generation holds one.
C10_OfflineFallback ==
    [][\A r \in reqs :
          /\ (FetchMatch(r) /\ ~r.orph
                 /\ StoredUnder(storage[wk[r.w].name].entries, r.path) = {})
                 => \E d \in reqs' : d.pc = "offline" /\ d.path = r.path
          /\ (FetchOffline(r) /\ ~r.orph
                 /\ StoredUnder(storage[wk[r.w].name].entries, "/offline.html") # {})
                 => \E d \in reqs' :
                       /\ d.pc = "done"
                       /\ d.path = r.path
                       /\ d.result \in
                            StoredUnder(storage[wk[r.w].name].entries, "/offline.html")]_vars

C10_Witness ==
    \E r \in reqs :
        /\ r.pc = "done"
        /\ r.net.kind = "error"
        /\ r.path = "/nonexistent-page"
        /\ r.result.kind = "resp"
        /\ r.result.path = "/offline.html"

\* The query strings a lookup may carry.
Searches == {"", "?x=1"}

\* The keys (URLs) of a generation's entries.
KeysOf(entries) == {[path |-> e.path, search |-> e.search] : e \in entries}

CoreKeys == {[path |-> p, search |-> ""] : p \in CORE_ASSETS}

\* C11: from the moment a worker's install succeeded, and as long as the
\* worker is waiting, activating or active, a lookup of any core asset path
\* with any query string, ignoring the query string, in the generation named
\* by the worker returns a stored response for that path.
C11_CoreAssetsStoredAfterInstall ==
    \A w \in Workers :
        wk[w].st \in {"inst_skip", "installed", "act_keys", "act_delete", "activated"}
            => \A p \in CORE_ASSETS, q \in Searches :
                  LET found == CacheMatch(storage[wk[w].name].entries,
                                          [path |-> p, search |-> q], TRUE)
                  IN found.kind = "resp" /\ found.path = p

\* A worker just installed into a generation that did not exist before.
C11_Witness ==
    \E w \in Workers : wk[w].st = "installed" /\ ~wk[w].pre

\* C12: an install whose fetches all succeeded, into a generation that
\* already holds exactly the core asset keys, does not fail and leaves the
\* generation with the same key set and one entry per core asset path.
C12_ReinstallIdempotent ==
    [][\A w \in Workers :
          (wk[w].st = "inst_addAll" /\ wk'[w].st # "inst_addAll" /\ ~wk'[w].bad
              /\ KeysOf(storage[wk[w].name].entries) = CoreKeys)
              => /\ wk'[w].st = "inst_skip"
                 /\ KeysOf(storage'[wk[w].name].entries) = CoreKeys
                 /\ Cardinality(storage'[wk[w].name].entries)
                        = Cardinality(CORE_ASSETS)]_vars

\* A second worker with the same CACHE_NAME as an earlier, activated one was
\* installed over the generation of the first, which held other responses.
C12_Witness ==
    \E w, v \in Workers :
        /\ v < w
        /\ wk[v].name = wk[w].name
        /\ wk[v].st = "activated"
        /\ wk[w].st = "installed"
        /\ wk[w].pre
        /\ \A e \in storage[wk[w].name].entries : e.resp.body = w

\* C13: once a worker's activate phase has completed, every page in scope is
\* controlled by it, so that the page's next request is dispatched to it.
C13_ActivatedControlsEveryPage ==
    \A w \in Workers :
        wk[w].st = "activated" => \A p \in Pages : ctl[p] = w

\* C14: skipWaiting is called only once every core asset is stored in the
\* worker's generation, and a worker whose install succeeded eventually
\* enters the activate phase, whatever the previous worker is doing.
C14_InstalledEventuallyActivates ==
    /\ [][\A w \in Workers :
             (~wk[w].skip /\ wk'[w].skip)
                 => /\ ~wk[w].bad
                    /\ CoreKeys \subseteq KeysOf(storage[wk[w].name].entries)]_vars
    /\ \A w \in Workers :
          (wk[w].st = "inst_skip")
              ~> (wk[w].st = "act_keys")

\* A worker entered its activate phase while a listener of the worker it
\* replaced is still running.
C14_Witness ==
    \E w \in Workers :
        /\ wk[w].st = "act_keys"
        /\ \E r \in reqs : r.pc # "done" /\ wk[r.w].st = "redundant"

\* C15: while a worker installs and an activated worker with another
\* CACHE_NAME serves, no step changes the serving worker's generation, the
\* install steps change no generation but the installing worker's own, the
\* serving worker's generation holds every core asset, and its cache lookup
\* answers a core asset request with the stored snapshot.
C15_InstallLeavesServingGeneration ==
    [][\A w, a \in Workers :
          (wk[w].st \in {"inst_open", "inst_addAll"} /\ wk[a].st = "activated"
              /\ wk[a].name # wk[w].name)
              => /\ storage'[wk[a].name] = storage[wk[a].name]
                 /\ CoreKeys \subseteq KeysOf(storage[wk[a].name].entries)
                 /\ wk'[w].st # wk[w].st =>
                       \A n \in CacheNames \ {wk[w].name} : storage'[n] = storage[n]
                 /\ \A r \in reqs :
                       (FetchMatch(r) /\ r.w = a /\ r.path \in CORE_ASSETS)
                           => \E d \in reqs' :
                                 /\ d.pc = "done"
                                 /\ d.result \in StoredUnder(storage[wk[a].name].entries,
                                                             r.path)]_vars

\* The serving worker answered from its cache while a worker with another
\* CACHE_NAME was between opening its generation and filling it.
C15_Witness ==
    \E w, a \in Workers, r \in reqs :
        /\ wk[w].st = "inst_addAll"
        /\ wk[a].st = "activated"
        /\ wk[a].name # wk[w].name
        /\ r.w = a
        /\ r.pc = "done"
        /\ r.net.kind = "error"
        /\ r.result.kind = "resp"
        /\ r.result.path = r.path

\* C16: once setOpen has run, the root carries ctc-mnav-open exactly when
\* aria-expanded is "true", aria-label is "Close menu" and aria-hidden is
\* "false".
C16_MenuStateConsistent ==
    menu.called =>
        (menu.open <=> (/\ menu.expanded = "true"
                        /\ menu.label = "Close menu"
                        /\ menu.hidden = "false"))

\* The menu open, over markup that shipped other attribute values.
C16_Witness ==
    menu.called /\ menu.open /\ menu.hidden = "false"

\* C17: the header carries exactly one of is-up / is-down and exactly one of
\* nav-up / nav-down.
C17_VisibilityClassesExclusive ==
    /\ Cardinality(headerClass \cap {"is-up", "is-down"}) = 1
    /\ Cardinality(navClass \cap {"nav-up", "nav-down"}) = 1

C17_Witness ==
    headerClass = {"is-down"} /\ navClass = {"nav-down"}

\* C18: while the mobile menu is open, a scroll event and the animation-frame
\* callbacks of both scripts leave the header's classes, lastY and
\* lastScrollTop as they were.
C18_OpenMenuFreezesHeader ==
    [][(menu.open /\ ((\E y \in ScrollOffsets : ScrollEvent(y)) \/ Frame \/ NavFrame))
          => /\ headerClass' = headerClass
             /\ lastY' = lastY
             /\ navClass' = navClass
             /\ lastScrollTop' = lastScrollTop]_hvars

\* With the menu open, both callbacks ran at an offset that would have hidden
\* the header: lastY and lastScrollTop still hold an earlier offset.
C18_Witness ==
    /\ menu.open
    /\ ~ticking /\ ~navTicking
    /\ headerClass = {"is-up"} /\ navClass = {"nav-up"}
    /\ scrollY - lastY >= JitterLimit
    /\ scrollY - lastScrollTop > delta
    /\ scrollY > headerHeight

\* C19: in each script at most one animation-frame callback is pending,
\* ticking is true exactly when one is, a scroll event arriving while none is
\* pending schedules one, and a pending callback eventually runs and leaves
\* ticking false.
C19_ScrollThrottle ==
    /\ [](/\ rafPending <= 1 /\ (ticking <=> rafPending = 1)
          /\ navRafPending <= 1 /\ (navTicking <=> navRafPending = 1))
    /\ [][(\E y \in ScrollOffsets : ScrollEvent(y))
             => /\ ticking' /\ rafPending' = 1
                /\ navTicking' /\ navRafPending' = 1]_hvars
    /\ (ticking ~> ~ticking)
    /\ (navTicking ~> ~navTicking)

\* A callback ran (it hid the header) and a later scroll event scheduled the
\* next one.
C19_Witness ==
    /\ ticking /\ rafPending = 1 /\ headerClass = {"is-down"}
    /\ navTicking /\ navRafPending = 1 /\ navClass = {"nav-down"}

====
